---------------------------- MODULE Spec2Model ----------------------------
(***************************************************************************)
(* A model of amltk's Task (src/src/amltk/scheduling/task.py): submission  *)
(* through the plugin chain, dispatch to the scheduler, the queue of       *)
(* futures, and the completion hook _process_future with the lifecycle     *)
(* events it emits.                                                        *)
(*                                                                         *)
(* One thread submits (Task.__call__ is a sequence of steps, one per       *)
(* statement that another thread can observe).  The backend's workers      *)
(* start, complete and cancel futures concurrently; a future's done        *)
(* callback runs in the thread that made it terminal, or inline in         *)
(* add_done_callback when the future is terminal already.                  *)
(*                                                                         *)
(* Under Spec the subscribers' callbacks return normally.                  *)
(***************************************************************************)
EXTENDS Integers, Sequences, FiniteSets

\* ------------------------------------------------------------------ bounds

\* Futures the scheduler hands out in one run.
MaxHandles == 2

\* Calls of _process_future for one future, the second and later ones made
\* by hand.
MaxFinalize == 2

\* Callbacks that subscribe to one event of one Task.
MaxCallbacks == 2

\* Task objects, and plugin objects, that exist together.
MaxTasks == 2
MaxObjects == 2

\* Seeds a caller passes, and metrics in one list of metrics.
MaxSeed == 1
MaxMetrics == 2

\* Step objects that exist together, arguments of one Step.join, and items
\* of one iterable argument.
MaxSteps == 5
MaxArgs == 2
MaxItems == 2

\* Plugins attached to the Task.
MaxPlugins == 2

\* Call arguments are 0 .. ArgMod-1; a plugin's rewrite wraps around.
ArgMod == 3

\* ------------------------------------------------------- values and helpers

\* What submit returns when a plugin vetoes or the scheduler rejects.
None == 0

\* ret before the call returned.
NoReturn == -1

\* ret when the call ended with an exception, not a return.
Raised == -2
\* seed: Seed | None = None.
NoSeed == -1
\* to: Key | Step[Key] | None = None, where a name stands.
NoKey == "None"

\* The error the user function raises (ValueError("boom")), as a payload.
Boom == -1

Handles == 1 .. MaxHandles
Args == 0 .. (ArgMod - 1)

Backends == {"sequential", "thread", "process"}
PluginKinds == {"veto", "inc", "wrap"}

Terminal == {"result", "error", "cancelled"}
FutureStates == {"pending", "running"} \cup Terminal

\* The sequences of length 0 .. n over S.
SeqUpTo(S, n) == UNION {[1 .. k -> S] : k \in 0 .. n}

IsPrefix(s, t) == Len(s) <= Len(t) /\ SubSeq(t, 1, Len(s)) = s

\* list.remove(x): drops the first occurrence of x.
RemoveFirst(s, x) ==
    LET i == CHOOSE k \in 1 .. Len(s) :
                 s[k] = x /\ \A j \in 1 .. (k - 1) : s[j] # x
    IN  SubSeq(s, 1, i - 1) \o SubSeq(s, i + 1, Len(s))

InSeq(s, x) == \E i \in 1 .. Len(s) : s[i] = x

Count(s, x) == Cardinality({i \in 1 .. Len(s) : s[i] = x})

\* The user function and a plugin's wrapper around it: f(x) = x * 2, and it
\* raises on 0; a function wrapped k times adds k to the value.
RunRaises(f, a) == a = 0
RunValue(f, a) == 2 * a + f

\* TaskPlugin.pre_submit(fn, *args): the veto, or the replacement (fn, args).
PreSubmitVetoes(kind) == kind = "veto"
PreSubmitFn(kind, f, a) == IF kind = "wrap" THEN f + 1 ELSE f
PreSubmitArgs(kind, f, a) ==
    IF kind = "inc" THEN (a + 1) % ArgMod
    ELSE IF kind = "wrap" THEN (2 * a) % ArgMod
    ELSE a

\* ------------------------------------------------------------------- state

VARIABLES
    backend,    \* the kind of executor behind Task.scheduler
    function,   \* Task.function
    plugins,    \* Task.plugins, the kinds in attachment order
    queue,      \* Task.queue
    pc,         \* where the submitting thread is in Task.__call__
    callargs,   \* the caller's arguments of the call in progress
    fn,         \* __call__'s local fn
    args,       \* __call__'s local args
    pidx,       \* the plugin the loop of __call__ is at
    calls,      \* the pre_submit calls of the call in progress
    sched,      \* the scheduler.submit call of the call in progress
    cur,        \* __call__'s local future (0: none)
    ret,        \* what the last call returned
    nh,         \* futures handed out so far
    hstate,     \* each future's state
    hfn,        \* the function each future runs
    hargs,      \* the arguments each future runs it with
    hooked,     \* the future has _process_future among its done callbacks
    fpc,        \* where _process_future(future) is
    nproc,      \* how often _process_future(future) was entered
    nremoved,   \* how often _process_future removed the future
    emitting,   \* subscribers of `submitted` for this future are running
    events,     \* the events emitted for each future, in order
    rpc,        \* where a thread reading Task.n_running is
    ridx,       \* the index of that read's list iterator
    rcount,     \* what that read's sum has counted
    rresult,    \* what the last read of n_running returned
    rstart,     \* the queue when that read began
    rfirst,     \* the queued futures not done when that read began
    subs,       \* the callbacks registered for one event, in order
    epc,        \* where emit for that event is
    esnap,      \* the callbacks the pass of emit goes through
    eidx,       \* the callback the pass is at
    einvoked,   \* the callbacks the pass has invoked, and which raised
    efailed,    \* the failures the pass has collected
    tasks,      \* the Task objects, in order of construction
    objs,       \* the plugin objects, in order of creation
    nuuid,      \* the uuids handed out so far
    registry,   \* the event each callback is subscribed to, under which ref
    futs,       \* the futures submitted through the Task objects
    lastemit,   \* the last emission of a Task object
    stack,      \* the calls of the Task suspended in a callback, outermost first
    chained,    \* the futures a callback of which called the Task again
    opc,        \* where the call of OptunaOptimizer.create stands
    oargs,      \* the arguments of that call
    ostudy,     \* the study the call has created
    osampler,   \* the local variable sampler of the call
    oself,      \* the optimizer the call has returned
    steps,      \* the Step objects, in order of creation
    lastcall    \* the last call of a Step method, its arguments and its result

vars == <<backend, function, plugins, queue, pc, callargs, fn, args, pidx,
          calls, sched, cur, ret, nh, hstate, hfn, hargs, hooked, fpc,
          nproc, nremoved, emitting, events, rpc, ridx, rcount, rresult,
          rstart, rfirst, subs, epc, esnap, eidx, einvoked, efailed,
          tasks, objs, nuuid, registry, futs, lastemit, stack, chained,
          opc, oargs, ostudy, osampler, oself, steps, lastcall>>

readVars == <<rpc, ridx, rcount, rresult, rstart, rfirst>>
emitVars == <<subs, epc, esnap, eidx, einvoked, efailed>>
objectVars == <<tasks, objs, nuuid, registry, futs, lastemit>>
\* What the steps of Task.__call__ and Task._process_future never assign.
nestVars == <<stack, chained>>
optunaVars == <<opc, oargs, ostudy, osampler, oself>>
stepVars == <<steps, lastcall>>
taskVars == <<backend, function, plugins, readVars, emitVars, objectVars,
              nestVars, optunaVars, stepVars>>
callVars == <<pc, callargs, fn, args, pidx, calls, sched, cur, ret>>
futureVars == <<nh, hstate, hfn, hargs>>
hookVars == <<hooked, fpc, nproc, nremoved>>

Ev(name, payload) == [name |-> name, payload |-> payload]

NoSched == [called |-> FALSE, fn |-> 0, args |-> 0]

NoSubscription == [event |-> "none", ref |-> <<"", 0>>, task |-> 0]
NoEmit == [event |-> "none", task |-> 0, future |-> 0, called |-> {}]

\* sampler: BaseSampler | None = None, and a seed of None.
NoSampler == [kind |-> "None", seed |-> NoSeed]
\* No call of OptunaOptimizer.create yet, no study, no optimizer.
NoCreate == [space |-> "none", metrics |-> <<>>, single |-> FALSE,
             bucket |-> "none", sampler |-> NoSampler, seed |-> NoSeed,
             direction |-> FALSE]
NoStudy == [directions |-> <<>>, sampler |-> NoSampler]
NoOptimizer == [study |-> NoStudy, metrics |-> <<>>, space |-> "none",
                bucket |-> "none", seed |-> NoSeed]
\* No call of a Step method yet.
NoStepCall == [op |-> "none", self |-> 0, args |-> <<>>, backwards |-> FALSE,
               include_self |-> TRUE, to |-> NoKey, result |-> <<>>,
               raised |-> FALSE]

Init ==
    /\ backend \in Backends
    /\ function = 0
    /\ plugins \in SeqUpTo(PluginKinds, MaxPlugins)
    /\ queue = <<>>
    /\ pc = "idle"
    /\ callargs = 0
    /\ fn = 0
    /\ args = 0
    /\ pidx = 1
    /\ calls = <<>>
    /\ sched = NoSched
    /\ cur = 0
    /\ ret = NoReturn
    /\ nh = 0
    /\ hstate = [h \in Handles |-> "pending"]
    /\ hfn = [h \in Handles |-> 0]
    /\ hargs = [h \in Handles |-> 0]
    /\ hooked = [h \in Handles |-> FALSE]
    /\ fpc = [h \in Handles |-> "none"]
    /\ nproc = [h \in Handles |-> 0]
    /\ nremoved = [h \in Handles |-> 0]
    /\ emitting = [h \in Handles |-> FALSE]
    /\ events = [h \in Handles |-> <<>>]
    /\ rpc = "idle"
    /\ ridx = 1
    /\ rcount = 0
    /\ rresult = NoReturn
    /\ rstart = <<>>
    /\ rfirst = 0
    /\ subs = <<>>
    /\ epc = "idle"
    /\ esnap = <<>>
    /\ eidx = 1
    /\ einvoked = <<>>
    /\ efailed = <<>>
    /\ tasks = <<>>
    /\ objs = <<>>
    /\ nuuid = 0
    /\ registry = [c \in 1 .. MaxCallbacks |-> NoSubscription]
    /\ futs = <<>>
    /\ lastemit = NoEmit
    /\ stack = <<>>
    /\ chained = {}
    /\ opc = "idle"
    /\ oargs = NoCreate
    /\ ostudy = NoStudy
    /\ osampler = NoSampler
    /\ oself = NoOptimizer
    /\ steps = <<>>
    /\ lastcall = NoStepCall


\* ----------------------------------------------------- the future, the backend

\* Future.done(), Future.cancelled(), Future.exception(), Future.result().
FutureDone(h) == hstate[h] \in Terminal
FutureCancelled(h) == hstate[h] = "cancelled"
FutureHasException(h) == hstate[h] = "error"
FutureException(h) == Boom
FutureResult(h) == RunValue(hfn[h], hargs[h])

\* The state the function's run leaves its future in.
Outcome(f, a) == IF RunRaises(f, a) THEN "error" ELSE "result"

\* A sequential backend runs the call inline, so the future it returns is
\* terminal already; a pool returns a pending one.
SubmittedState(f, a) ==
    IF backend = "sequential" THEN Outcome(f, a) ELSE "pending"

\* The future's done callbacks are invoked by whoever made it terminal:
\* _process_future(h) is entered if it was added.
InvokeCallbacks(h) ==
    IF hooked[h]
    THEN /\ fpc' = [fpc EXCEPT ![h] = "remove"]
         /\ nproc' = [nproc EXCEPT ![h] = @ + 1]
    ELSE UNCHANGED <<fpc, nproc>>

\* A worker of the pool takes the future.
Start(h) ==
    /\ h <= nh
    /\ hstate[h] = "pending"
    /\ hstate' = [hstate EXCEPT ![h] = "running"]
    /\ UNCHANGED <<taskVars, queue, callVars, nh, hfn, hargs, hookVars,
                   emitting, events>>

\* The worker finishes the call: set_result or set_exception.
Complete(h) ==
    /\ h <= nh
    /\ hstate[h] = "running"
    /\ hstate' = [hstate EXCEPT ![h] = Outcome(hfn[h], hargs[h])]
    /\ InvokeCallbacks(h)
    /\ UNCHANGED <<taskVars, queue, callVars, nh, hfn, hargs, hooked,
                   nremoved, emitting, events>>

\* Future.cancel() on a future no worker has taken yet.
Cancel(h) ==
    /\ h <= nh
    /\ hstate[h] = "pending"
    /\ hstate' = [hstate EXCEPT ![h] = "cancelled"]
    /\ InvokeCallbacks(h)
    /\ UNCHANGED <<taskVars, queue, callVars, nh, hfn, hargs, hooked,
                   nremoved, emitting, events>>

\* ------------------------------------------------------------ Task.__call__

Emit(h, name, payload) ==
    events' = [events EXCEPT ![h] = Append(@, Ev(name, payload))]

\* task(a): fn = self.function, and the loop over the plugins begins.
Call(a) ==
    /\ pc = "idle"
    /\ nh < MaxHandles
    /\ callargs' = a
    /\ fn' = function
    /\ args' = a
    /\ pidx' = 1
    /\ calls' = <<>>
    /\ sched' = NoSched
    /\ cur' = 0
    /\ ret' = NoReturn
    /\ pc' = "plugins"
    /\ UNCHANGED <<taskVars, queue, futureVars, hookVars, emitting, events>>

\* Fault: every plugin is handed self.function, not the fn of the loop.
PreSubmitInputUnthreaded == [fn |-> function, args |-> args]

\* What the loop hands to plugin.pre_submit.
PreSubmitInput == [fn |-> fn, args |-> args]

\* Fault: a veto does not end the call, the loop goes on to the next plugin.
PreSubmitIgnoresVeto ==
    /\ pc = "plugins"
    /\ pidx <= Len(plugins)
    /\ LET kind == plugins[pidx]
           veto == PreSubmitVetoes(kind)
           outfn == IF veto THEN fn ELSE PreSubmitFn(kind, fn, args)
           outargs == IF veto THEN args ELSE PreSubmitArgs(kind, fn, args)
       IN  /\ calls' = Append(calls, [plugin |-> pidx, fn |-> fn,
                                      args |-> args, veto |-> veto,
                                      outfn |-> outfn, outargs |-> outargs])
           /\ fn' = outfn
           /\ args' = outargs
           /\ pidx' = pidx + 1
           /\ UNCHANGED <<pc, ret>>
    /\ UNCHANGED <<taskVars, queue, callargs, sched, cur, futureVars,
                   hookVars, emitting, events>>

\* Fault: the loop rebinds self.function, not only its local fn.
PreSubmitRebindsFunction ==
    /\ pc = "plugins"
    /\ pidx <= Len(plugins)
    /\ LET kind == plugins[pidx]
           veto == PreSubmitVetoes(kind)
           outfn == PreSubmitFn(kind, fn, args)
           outargs == PreSubmitArgs(kind, fn, args)
       IN  /\ calls' = Append(calls, [plugin |-> pidx, fn |-> fn,
                                      args |-> args, veto |-> veto,
                                      outfn |-> outfn, outargs |-> outargs])
           /\ IF veto
              THEN /\ pc' = "idle"
                   /\ ret' = None
                   /\ UNCHANGED <<fn, args, pidx, function>>
              ELSE /\ fn' = outfn
                   /\ function' = outfn
                   /\ args' = outargs
                   /\ pidx' = pidx + 1
                   /\ UNCHANGED <<pc, ret>>
    /\ UNCHANGED <<backend, plugins, readVars, emitVars, objectVars, nestVars,
                   optunaVars, stepVars,
                   queue, callargs, sched, cur,
                   futureVars, hookVars, emitting, events>>

\* One turn of the loop: the plugin vetoes and the call returns None, or
\* its (fn, args) replace the locals.
PreSubmit ==
    /\ pc = "plugins"
    /\ pidx <= Len(plugins)
    /\ LET kind == plugins[pidx]
           in == PreSubmitInput
           veto == PreSubmitVetoes(kind)
           outfn == PreSubmitFn(kind, in.fn, in.args)
           outargs == PreSubmitArgs(kind, in.fn, in.args)
       IN  /\ calls' = Append(calls, [plugin |-> pidx, fn |-> in.fn,
                                      args |-> in.args, veto |-> veto,
                                      outfn |-> outfn, outargs |-> outargs])
           /\ IF veto
              THEN /\ pc' = "idle"
                   /\ ret' = None
                   /\ UNCHANGED <<fn, args, pidx>>
              ELSE /\ fn' = outfn
                   /\ args' = outargs
                   /\ pidx' = pidx + 1
                   /\ UNCHANGED <<pc, ret>>
    /\ UNCHANGED <<taskVars, queue, callargs, sched, cur, futureVars,
                   hookVars, emitting, events>>

\* What the call hands to scheduler.submit.
SchedulerInput == [called |-> TRUE, fn |-> fn, args |-> args]

\* Fault: the future is appended before it is tested for None.
SchedulerRejectsAppends ==
    /\ pc = "plugins"
    /\ pidx > Len(plugins)
    /\ sched' = [called |-> TRUE, fn |-> fn, args |-> args]
    /\ queue' = Append(queue, None)
    /\ pc' = "idle"
    /\ ret' = None
    /\ UNCHANGED <<taskVars, callargs, fn, args, pidx, calls, cur,
                   futureVars, hookVars, emitting, events>>

\* Fault: the call does not return on a rejection, it asks the scheduler
\* again.
SchedulerRejectsRetries ==
    /\ pc = "plugins"
    /\ pidx > Len(plugins)
    /\ sched' = SchedulerInput
    /\ UNCHANGED <<taskVars, queue, pc, callargs, fn, args, pidx, calls, cur,
                   ret, futureVars, hookVars, emitting, events>>

\* scheduler.submit returns None: the call returns None.
SchedulerRejects ==
    /\ pc = "plugins"
    /\ pidx > Len(plugins)
    /\ sched' = SchedulerInput
    /\ pc' = "idle"
    /\ ret' = None
    /\ UNCHANGED <<taskVars, queue, callargs, fn, args, pidx, calls, cur,
                   futureVars, hookVars, emitting, events>>

\* scheduler.submit returns a future.
SchedulerAccepts ==
    /\ pc = "plugins"
    /\ pidx > Len(plugins)
    /\ sched' = SchedulerInput
    /\ LET h == nh + 1
           in == SchedulerInput
       IN  /\ nh' = h
           /\ hfn' = [hfn EXCEPT ![h] = in.fn]
           /\ hargs' = [hargs EXCEPT ![h] = in.args]
           /\ hstate' = [hstate EXCEPT ![h] = SubmittedState(in.fn, in.args)]
           /\ cur' = h
    /\ pc' = "append"
    /\ UNCHANGED <<taskVars, queue, callargs, fn, args, pidx, calls, ret,
                   hookVars, emitting, events>>

\* Fault: the done callback is added before `submitted` is emitted.
QueueAppendAndRegister ==
    /\ pc = "append"
    /\ queue' = Append(queue, cur)
    /\ hooked' = [hooked EXCEPT ![cur] = TRUE]
    /\ pc' = "emit"
    /\ UNCHANGED <<taskVars, callargs, fn, args, pidx, calls, sched, cur,
                   ret, futureVars, fpc, nproc, nremoved, emitting, events>>

\* self.queue.append(future)
QueueAppend ==
    /\ pc = "append"
    /\ queue' = Append(queue, cur)
    /\ pc' = "emit"
    /\ UNCHANGED <<taskVars, callargs, fn, args, pidx, calls, sched, cur,
                   ret, futureVars, hookVars, emitting, events>>

\* Fault: `submitted` is not emitted.
EmitSubmittedSkipped ==
    /\ pc = "emit"
    /\ emitting' = [emitting EXCEPT ![cur] = TRUE]
    /\ pc' = "subscribers"
    /\ UNCHANGED <<taskVars, queue, callargs, fn, args, pidx, calls, sched,
                   cur, ret, futureVars, hookVars, events>>

\* Fault: `submitted` carries the caller's arguments, not the rewritten ones.
EmitSubmittedCallerArgs ==
    /\ pc = "emit"
    /\ Emit(cur, "submitted", callargs)
    /\ emitting' = [emitting EXCEPT ![cur] = TRUE]
    /\ pc' = "subscribers"
    /\ UNCHANGED <<taskVars, queue, callargs, fn, args, pidx, calls, sched,
                   cur, ret, futureVars, hookVars>>

\* self.on_submitted.emit(future, *args): the subscribers start to run.
EmitSubmitted ==
    /\ pc = "emit"
    /\ Emit(cur, "submitted", args)
    /\ emitting' = [emitting EXCEPT ![cur] = TRUE]
    /\ pc' = "subscribers"
    /\ UNCHANGED <<taskVars, queue, callargs, fn, args, pidx, calls, sched,
                   cur, ret, futureVars, hookVars>>

\* The last subscriber of `submitted` returned, and so does emit.
SubmittedReturns ==
    /\ pc = "subscribers"
    /\ emitting' = [emitting EXCEPT ![cur] = FALSE]
    /\ pc' = "register"
    /\ UNCHANGED <<taskVars, queue, callargs, fn, args, pidx, calls, sched,
                   cur, ret, futureVars, hookVars, events>>

\* Fault: _process_future is called directly and added as a callback too.
AddDoneCallbackAndCall ==
    /\ pc = "register"
    /\ hooked' = [hooked EXCEPT ![cur] = ~FutureDone(cur)]
    /\ fpc' = [fpc EXCEPT ![cur] = "remove"]
    /\ nproc' = [nproc EXCEPT ![cur] = @ + 1]
    /\ pc' = "hook"
    /\ UNCHANGED <<taskVars, queue, callargs, fn, args, pidx, calls, sched,
                   cur, ret, futureVars, nremoved, emitting, events>>

\* Fault: the callback is added only, a terminal future never calls it.
AddDoneCallbackLost ==
    /\ pc = "register"
    /\ hooked' = [hooked EXCEPT ![cur] = TRUE]
    /\ pc' = "return"
    /\ UNCHANGED <<taskVars, queue, callargs, fn, args, pidx, calls, sched,
                   cur, ret, futureVars, fpc, nproc, nremoved, emitting,
                   events>>

\* future.add_done_callback(self._process_future): added while the future
\* is not terminal, called at once when it is.
AddDoneCallback ==
    /\ pc = "register"
    /\ IF FutureDone(cur)
       THEN /\ fpc' = [fpc EXCEPT ![cur] = "remove"]
            /\ nproc' = [nproc EXCEPT ![cur] = @ + 1]
            /\ pc' = "hook"
            /\ UNCHANGED hooked
       ELSE /\ hooked' = [hooked EXCEPT ![cur] = TRUE]
            /\ pc' = "return"
            /\ UNCHANGED <<fpc, nproc>>
    /\ UNCHANGED <<taskVars, queue, callargs, fn, args, pidx, calls, sched,
                   cur, ret, futureVars, nremoved, emitting, events>>

\* return future (after the callback add_done_callback called at once, if
\* it did, has ended).
Return ==
    /\ \/ pc = "return"
       \/ pc = "hook" /\ fpc[cur] \in {"finished", "raised"}
    /\ ret' = cur
    /\ pc' = "idle"
    /\ UNCHANGED <<taskVars, queue, callargs, fn, args, pidx, calls, sched,
                   cur, futureVars, hookVars, emitting, events>>

\* ------------------------------------------------------ Task._process_future

\* Fault: the future is not removed from the queue.
ProcessFutureKeeps(h) ==
    /\ fpc[h] = "remove"
    /\ fpc' = [fpc EXCEPT ![h] = "check"]
    /\ UNCHANGED <<taskVars, queue, callVars, futureVars, hooked, nproc,
                   nremoved, emitting, events>>

\* Fault: the ValueError of list.remove is caught and dropped.
ProcessFutureRemoveSwallows(h) ==
    /\ fpc[h] = "remove"
    /\ IF InSeq(queue, h)
       THEN /\ queue' = RemoveFirst(queue, h)
            /\ nremoved' = [nremoved EXCEPT ![h] = @ + 1]
       ELSE UNCHANGED <<queue, nremoved>>
    /\ fpc' = [fpc EXCEPT ![h] = "check"]
    /\ UNCHANGED <<taskVars, callVars, futureVars, hooked, nproc, emitting,
                   events>>

\* self.queue.remove(future), a ValueError if it is not there.
ProcessFutureRemove(h) ==
    /\ fpc[h] = "remove"
    /\ IF InSeq(queue, h)
       THEN /\ queue' = RemoveFirst(queue, h)
            /\ nremoved' = [nremoved EXCEPT ![h] = @ + 1]
            /\ fpc' = [fpc EXCEPT ![h] = "check"]
       ELSE /\ fpc' = [fpc EXCEPT ![h] = "raised"]
            /\ UNCHANGED <<queue, nremoved>>
    /\ UNCHANGED <<taskVars, callVars, futureVars, hooked, nproc, emitting,
                   events>>

\* Fault: no return after `cancelled`, the function goes on to the result.
ProcessFutureCancelledGoesOn(h) ==
    /\ fpc[h] = "check"
    /\ FutureCancelled(h)
    /\ Emit(h, "cancelled", 0)
    /\ fpc' = [fpc EXCEPT ![h] = "result"]
    /\ UNCHANGED <<taskVars, queue, callVars, futureVars, hooked, nproc,
                   nremoved, emitting>>

\* if future.cancelled(): emit cancelled and return.
ProcessFutureCancelled(h) ==
    /\ fpc[h] = "check"
    /\ FutureCancelled(h)
    /\ Emit(h, "cancelled", 0)
    /\ fpc' = [fpc EXCEPT ![h] = "finished"]
    /\ UNCHANGED <<taskVars, queue, callVars, futureVars, hooked, nproc,
                   nremoved, emitting>>

\* self.on_done.emit(future)
ProcessFutureDone(h) ==
    /\ fpc[h] = "check"
    /\ ~FutureCancelled(h)
    /\ Emit(h, "done", 0)
    /\ fpc' = [fpc EXCEPT ![h] = "result"]
    /\ UNCHANGED <<taskVars, queue, callVars, futureVars, hooked, nproc,
                   nremoved, emitting>>

\* Fault: the test of the exception is inverted.
ProcessFutureResultInverted(h) ==
    /\ fpc[h] = "result"
    /\ IF ~FutureHasException(h)
       THEN Emit(h, "exception", FutureException(h))
       ELSE Emit(h, "returned", FutureResult(h))
    /\ fpc' = [fpc EXCEPT ![h] = "finished"]
    /\ UNCHANGED <<taskVars, queue, callVars, futureVars, hooked, nproc,
                   nremoved, emitting>>

\* Fault: future.result() is called without a look at future.exception(),
\* so the error of the user function is raised inside _process_future.
ProcessFutureResultUnchecked(h) ==
    /\ fpc[h] = "result"
    /\ IF FutureHasException(h)
       THEN /\ fpc' = [fpc EXCEPT ![h] = "raised"]
            /\ UNCHANGED events
       ELSE /\ Emit(h, "returned", FutureResult(h))
            /\ fpc' = [fpc EXCEPT ![h] = "finished"]
    /\ UNCHANGED <<taskVars, queue, callVars, futureVars, hooked, nproc,
                   nremoved, emitting>>

\* The exception of the future, or else its result, is emitted.
ProcessFutureResult(h) ==
    /\ fpc[h] = "result"
    /\ IF FutureHasException(h)
       THEN Emit(h, "exception", FutureException(h))
       ELSE Emit(h, "returned", FutureResult(h))
    /\ fpc' = [fpc EXCEPT ![h] = "finished"]
    /\ UNCHANGED <<taskVars, queue, callVars, futureVars, hooked, nproc,
                   nremoved, emitting>>

\* Task.n_running
n_running == Cardinality({i \in 1 .. Len(queue) : ~FutureDone(queue[i])})

\* ----------------------------------------------------------- specification

Next ==
    \/ \E a \in Args : Call(a)
    \/ PreSubmit
    \/ SchedulerRejects
    \/ SchedulerAccepts
    \/ QueueAppend
    \/ EmitSubmitted
    \/ SubmittedReturns
    \/ AddDoneCallback
    \/ Return
    \/ \E h \in Handles : ProcessFutureRemove(h)
    \/ \E h \in Handles : ProcessFutureCancelled(h)
    \/ \E h \in Handles : ProcessFutureDone(h)
    \/ \E h \in Handles : ProcessFutureResult(h)
    \/ \E h \in Handles : Start(h)
    \/ \E h \in Handles : Complete(h)
    \/ \E h \in Handles : Cancel(h)

Spec == Init /\ [][Next]_vars

\* ------------------------------------------------------- Task.attach_plugin

\* Fault: the plugin is put first, not last.
AttachPluginFirst(k) ==
    /\ pc \in {"idle", "subscribers"}
    /\ Len(plugins) < MaxPlugins
    /\ plugins' = <<k>> \o plugins
    /\ UNCHANGED <<backend, function, readVars, emitVars, objectVars, nestVars,
                   optunaVars, stepVars,
                   queue,
                   callVars, futureVars, hookVars, emitting, events>>

\* task.attach_plugin(plugin): self.plugins.append(plugin). The thread that
\* submits calls it, between two calls or from a subscriber of `submitted`.
AttachPlugin(k) ==
    /\ pc \in {"idle", "subscribers"}
    /\ Len(plugins) < MaxPlugins
    /\ plugins' = Append(plugins, k)
    /\ UNCHANGED <<backend, function, readVars, emitVars, objectVars, nestVars,
                   optunaVars, stepVars,
                   queue,
                   callVars, futureVars, hookVars, emitting, events>>

NextAttach ==
    \/ Next
    \/ \E k \in PluginKinds : AttachPlugin(k)

\* A Task on a thread pool, constructed with all but the last of its plugins.
InitAttach ==
    /\ Init
    /\ backend = "thread"
    /\ Len(plugins) = MaxPlugins - 1

SpecAttach == InitAttach /\ [][NextAttach]_vars

\* ------------------------------------------- _process_future called again

\* task._process_future(future) is called for a future that was processed
\* before: a second finalization.
Refinalize(h) ==
    /\ h <= nh
    /\ fpc[h] \in {"finished", "raised"}
    /\ nproc[h] < MaxFinalize
    /\ fpc' = [fpc EXCEPT ![h] = "remove"]
    /\ nproc' = [nproc EXCEPT ![h] = @ + 1]
    /\ UNCHANGED <<taskVars, queue, callVars, futureVars, hooked, nremoved,
                   emitting, events>>

NextRefinalize ==
    \/ Next
    \/ \E h \in Handles : Refinalize(h)

\* A Task with one plugin on a pooled backend.
InitRefinalize ==
    /\ Init
    /\ backend = "thread"
    /\ plugins = <<"inc">>

SpecRefinalize == InitRefinalize /\ [][NextRefinalize]_vars

\* ------------------------------------------------ Task.n_running, stepwise

\* The submitting thread, between two calls of the Task, evaluates
\* task.n_running while workers complete futures:
\* sum(1 for f in self.queue if not f.done()) makes an iterator over the
\* list itself; nothing is locked or copied.
NRunningStart ==
    /\ rpc = "idle"
    /\ pc = "idle"
    /\ rpc' = "iter"
    /\ ridx' = 1
    /\ rcount' = 0
    /\ rresult' = NoReturn
    /\ rstart' = queue
    /\ rfirst' = n_running
    /\ UNCHANGED <<backend, function, plugins, emitVars, objectVars, nestVars,
                   optunaVars, stepVars,
                   queue,
                   callVars,
                   futureVars, hookVars, emitting, events>>

\* Fault: the filter `if not f.done()` is missing, every future is counted.
NRunningNextUnfiltered ==
    /\ rpc = "iter"
    /\ ridx <= Len(queue)
    /\ rcount' = rcount + 1
    /\ ridx' = ridx + 1
    /\ UNCHANGED <<backend, function, plugins, emitVars, objectVars, nestVars,
                   optunaVars, stepVars,
                   queue,
                   callVars,
                   futureVars, hookVars, emitting, events, rpc, rresult,
                   rstart, rfirst>>

\* One turn of the generator: the list iterator takes self.queue[index] of
\* the list as it is now and moves its index on; the future counts if it is
\* not done.
NRunningNext ==
    /\ rpc = "iter"
    /\ ridx <= Len(queue)
    /\ rcount' = IF FutureDone(queue[ridx]) THEN rcount ELSE rcount + 1
    /\ ridx' = ridx + 1
    /\ UNCHANGED <<backend, function, plugins, emitVars, objectVars, nestVars,
                   optunaVars, stepVars,
                   queue,
                   callVars,
                   futureVars, hookVars, emitting, events, rpc, rresult,
                   rstart, rfirst>>

\* The iterator's index is past the end of the list as it is now: the
\* generator stops and n_running returns the sum.
NRunningReturn ==
    /\ rpc = "iter"
    /\ ridx > Len(queue)
    /\ rpc' = "idle"
    /\ rresult' = rcount
    /\ ridx' = 1
    /\ rcount' = 0
    /\ rstart' = <<>>
    /\ rfirst' = 0
    /\ UNCHANGED <<backend, function, plugins, emitVars, objectVars, nestVars,
                   optunaVars, stepVars,
                   queue,
                   callVars,
                   futureVars, hookVars, emitting, events>>

\* Task.running
running == n_running > 0

\* The submitting thread is in Task.__call__ or in n_running, never in
\* both; the backend's threads run beside it.
NextRead ==
    \/ rpc = "idle" /\ Next
    \/ NRunningStart
    \/ NRunningNext
    \/ NRunningReturn
    \/ \E h \in Handles :
         \/ Start(h)
         \/ Complete(h)
         \/ Cancel(h)
         \/ ProcessFutureRemove(h)
         \/ ProcessFutureCancelled(h)
         \/ ProcessFutureDone(h)
         \/ ProcessFutureResult(h)

\* A Task with one plugin on a pooled backend.
InitRead ==
    /\ Init
    /\ backend = "thread"
    /\ plugins = <<"inc">>

SpecRead == InitRead /\ [][NextRead]_vars

\* ------------------------------------------------------- Subscriber, emit

Callbacks == 1 .. MaxCallbacks

Invocation(c, raised) == [callback |-> c, raised |-> raised]

\* The one Task of Task.__call__ and Task._process_future, its futures and
\* the read of its n_running.
taskCore == <<backend, function, plugins, readVars, nestVars, queue,
              callVars, futureVars, hookVars, emitting, events>>
coreVars == <<taskCore, optunaVars, stepVars>>

\* What emit leaves alone.
emitFrame == <<coreVars, objectVars>>

\* task.on_returned(callback): the callback is registered last.
Register(c) ==
    /\ ~InSeq(subs, c)
    /\ subs' = Append(subs, c)
    /\ UNCHANGED <<emitFrame, epc, esnap, eidx, einvoked, efailed>>

\* The token of a registration deregisters the callback.
Deregister(c) ==
    /\ InSeq(subs, c)
    /\ subs' = RemoveFirst(subs, c)
    /\ UNCHANGED <<emitFrame, epc, esnap, eidx, einvoked, efailed>>

\* emit(event, *payload) begins a pass over the callbacks registered now; the
\* emit before it, if any, is over.
EmitBegin ==
    /\ epc \in {"idle", "returned", "raised"}
    /\ epc' = "pass"
    /\ esnap' = subs
    /\ eidx' = 1
    /\ einvoked' = <<>>
    /\ efailed' = <<>>
    /\ UNCHANGED <<emitFrame, subs>>

\* Fault: fail-fast, the first failure ends the pass and is raised.
EmitInvokeFailFast ==
    /\ epc = "pass"
    /\ eidx <= Len(esnap)
    /\ \E raised \in BOOLEAN :
         /\ einvoked' = Append(einvoked, Invocation(esnap[eidx], raised))
         /\ efailed' = IF raised THEN Append(efailed, esnap[eidx]) ELSE efailed
         /\ epc' = IF raised THEN "raised" ELSE epc
    /\ eidx' = eidx + 1
    /\ UNCHANGED <<emitFrame, subs, esnap>>

\* The pass invokes the next callback, which returns or raises; a failure is
\* collected and the pass goes on.
EmitInvoke ==
    /\ epc = "pass"
    /\ eidx <= Len(esnap)
    /\ \E raised \in BOOLEAN :
         /\ einvoked' = Append(einvoked, Invocation(esnap[eidx], raised))
         /\ efailed' = IF raised THEN Append(efailed, esnap[eidx]) ELSE efailed
    /\ eidx' = eidx + 1
    /\ UNCHANGED <<emitFrame, subs, epc, esnap>>

\* The pass is complete: emit returns, or raises what was collected.
EmitEnd ==
    /\ epc = "pass"
    /\ eidx > Len(esnap)
    /\ epc' = IF efailed = <<>> THEN "returned" ELSE "raised"
    /\ UNCHANGED <<emitFrame, subs, esnap, eidx, einvoked, efailed>>

NextEmit ==
    \/ \E c \in Callbacks : Register(c)
    \/ \E c \in Callbacks : Deregister(c)
    \/ EmitBegin
    \/ EmitInvoke
    \/ EmitEnd

InitEmit ==
    /\ Init
    /\ backend = "sequential"
    /\ plugins = <<>>

SpecEmit == InitEmit /\ [][NextEmit]_vars

\* ------------------------------------------------- several Task objects

TaskIds == 1 .. MaxTasks
\* The function and the scheduler of the Tasks the caller constructs.
TaskArgs == {<<0, 1>>, <<1, 2>>}
ObjectKinds == {"inc", "wrap"}
EventNames == {"submitted", "returned"}

\* funcname(function)
funcname(f) == IF f = 0 THEN "f" ELSE "g"

\* UniqueRef(f"{self.name}-{self.uuid}")
UniqueRef(t) == <<tasks[t].name, tasks[t].uuid>>

\* The sequences without repetition of plugin objects that exist.
PluginLists ==
    {ps \in SeqUpTo(1 .. Len(objs), MaxPlugins) :
        \A i, j \in 1 .. Len(ps) : i # j => ps[i] # ps[j]}

\* What the operations on Task objects leave alone.
objectFrame == <<coreVars, emitVars>>

\* plugin.attach_task(task) for the plugins ps.
AttachTask(os, ps, t) ==
    [o \in 1 .. Len(os) |->
        IF InSeq(ps, o) THEN [os[o] EXCEPT !.task = t] ELSE os[o]]

\* Task.__init__ with the plugin objects ps among the objects os, name and
\* init_plugins as given; origin is the Task whose copy() makes the call, 0
\* for a call of the caller's.
NewTask(os, f, s, nm, ps, origin) ==
    /\ tasks' = Append(tasks, [name      |-> nm,
                               uuid      |-> nuuid + 1,
                               function  |-> f,
                               scheduler |-> s,
                               plugins   |-> ps,
                               queue     |-> <<>>,
                               origin    |-> origin])
    /\ nuuid' = nuuid + 1
    /\ objs' = AttachTask(os, ps, Len(tasks) + 1)

\* The caller makes a plugin object.
NewPlugin(k) ==
    /\ Len(objs) < MaxObjects
    /\ objs' = Append(objs, [kind |-> k, task |-> 0])
    /\ UNCHANGED <<objectFrame, tasks, nuuid, registry, futs, lastemit>>

\* Task(function, scheduler, plugins=ps): the name is funcname(function).
Construct(f, s, ps) ==
    /\ Len(tasks) < MaxTasks
    /\ NewTask(objs, f, s, funcname(f), ps, 0)
    /\ UNCHANGED <<objectFrame, registry, futs, lastemit>>

\* p.copy() for the plugins of task t: new objects of the same kind.
PluginCopies(t) ==
    [i \in 1 .. Len(tasks[t].plugins) |->
        [kind |-> objs[tasks[t].plugins[i]].kind, task |-> 0]]

\* Where the objects of PluginCopies(t) are among the objects.
CopiedPlugins(t) == [i \in 1 .. Len(tasks[t].plugins) |-> Len(objs) + i]

\* Fault: the copy takes the uuid, and so the unique_ref, of the original.
CopySameRef(t) ==
    /\ t \in 1 .. Len(tasks)
    /\ Len(tasks) < MaxTasks
    /\ Len(objs) + Len(tasks[t].plugins) <= MaxObjects
    /\ tasks' = Append(tasks, [tasks[t] EXCEPT !.plugins = CopiedPlugins(t),
                                               !.queue = <<>>,
                                               !.origin = t])
    /\ nuuid' = nuuid
    /\ objs' = AttachTask(objs \o PluginCopies(t), CopiedPlugins(t),
                          Len(tasks) + 1)
    /\ UNCHANGED <<objectFrame, registry, futs, lastemit>>

\* Fault: the copy is made of the original's attributes as they are, the
\* queue included.
CopyKeepsQueue(t) ==
    /\ t \in 1 .. Len(tasks)
    /\ Len(tasks) < MaxTasks
    /\ Len(objs) + Len(tasks[t].plugins) <= MaxObjects
    /\ tasks' = Append(tasks, [tasks[t] EXCEPT !.uuid = nuuid + 1,
                                               !.plugins = CopiedPlugins(t),
                                               !.origin = t])
    /\ nuuid' = nuuid + 1
    /\ objs' = AttachTask(objs \o PluginCopies(t), CopiedPlugins(t),
                          Len(tasks) + 1)
    /\ UNCHANGED <<objectFrame, registry, futs, lastemit>>

\* task.copy(): Task(self.function, self.scheduler, name=self.name,
\* plugins=tuple(p.copy() for p in self.plugins), init_plugins=True).
Copy(t) ==
    /\ t \in 1 .. Len(tasks)
    /\ Len(tasks) < MaxTasks
    /\ Len(objs) + Len(tasks[t].plugins) <= MaxObjects
    /\ NewTask(objs \o PluginCopies(t), tasks[t].function,
               tasks[t].scheduler, tasks[t].name, CopiedPlugins(t), t)
    /\ UNCHANGED <<objectFrame, registry, futs, lastemit>>

\* task.attach_plugin(plugin) with a plugin object the caller holds and has
\* not yet attached to this Task.
AttachPluginTo(t, o) ==
    /\ t \in 1 .. Len(tasks)
    /\ o \in 1 .. Len(objs)
    /\ ~InSeq(tasks[t].plugins, o)
    /\ Len(tasks[t].plugins) < MaxPlugins
    /\ tasks' = [tasks EXCEPT ![t].plugins = Append(@, o)]
    /\ objs' = [objs EXCEPT ![o].task = t]
    /\ UNCHANGED <<objectFrame, nuuid, registry, futs, lastemit>>

\* task.on_submitted(callback), task.on_returned(callback): the callback is
\* registered for the event under the Task's unique_ref.
Subscribe(t, e, c) ==
    /\ t \in 1 .. Len(tasks)
    /\ registry[c] = NoSubscription
    /\ registry' = [registry EXCEPT
                      ![c] = [event |-> e, ref |-> UniqueRef(t), task |-> t]]
    /\ UNCHANGED <<objectFrame, tasks, objs, nuuid, futs, lastemit>>

\* The callbacks that an emit of event e by task t invokes: those registered
\* for e under the Task's unique_ref.
Subscribers(t, e) ==
    {c \in 1 .. MaxCallbacks :
        registry[c].event = e /\ registry[c].ref = UniqueRef(t)}

\* task(...) on Task object t, accepted by the backend: the future is
\* appended to t's queue, `submitted` is emitted, and t's _process_future
\* becomes the future's done callback.
SubmitVia(t) ==
    /\ t \in 1 .. Len(tasks)
    /\ Len(futs) < MaxHandles
    /\ futs' = Append(futs, [task |-> t, state |-> "pending"])
    /\ tasks' = [tasks EXCEPT ![t].queue = Append(@, Len(futs) + 1)]
    /\ lastemit' = [event |-> "submitted", task |-> t,
                    future |-> Len(futs) + 1,
                    called |-> Subscribers(t, "submitted")]
    /\ UNCHANGED <<objectFrame, objs, nuuid, registry>>

\* The future completes with a result and its done callback, the
\* _process_future of the Task object it was submitted through, removes it
\* from that Task's queue and emits `done` and `returned`.
FinalizeVia(h) ==
    /\ h \in 1 .. Len(futs)
    /\ futs[h].state = "pending"
    /\ InSeq(tasks[futs[h].task].queue, h)
    /\ futs' = [futs EXCEPT ![h].state = "done"]
    /\ tasks' = [tasks EXCEPT ![futs[h].task].queue = RemoveFirst(@, h)]
    /\ lastemit' = [event |-> "returned", task |-> futs[h].task,
                    future |-> h,
                    called |-> Subscribers(futs[h].task, "returned")]
    /\ UNCHANGED <<objectFrame, objs, nuuid, registry>>

NextObjects ==
    \/ \E k \in ObjectKinds : NewPlugin(k)
    \/ \E fs \in TaskArgs, ps \in PluginLists : Construct(fs[1], fs[2], ps)
    \/ \E t \in TaskIds : Copy(t)
    \/ \E t \in TaskIds, o \in 1 .. MaxObjects : AttachPluginTo(t, o)
    \/ \E t \in TaskIds, e \in EventNames, c \in 1 .. MaxCallbacks :
         Subscribe(t, e, c)
    \/ \E t \in TaskIds : SubmitVia(t)
    \/ \E h \in Handles : FinalizeVia(h)

InitObjects ==
    /\ Init
    /\ backend = "thread"
    /\ plugins = <<>>

SpecObjects == InitObjects /\ [][NextObjects]_vars

\* ------------------------------------------------- subscribers that raise

\* A subscriber of `submitted` raised: after its pass emit raises to its
\* caller, Task.__call__, which catches nothing, so the call ends with the
\* exception before future.add_done_callback.
SubmittedRaises ==
    /\ pc = "subscribers"
    /\ emitting' = [emitting EXCEPT ![cur] = FALSE]
    /\ ret' = Raised
    /\ pc' = "idle"
    /\ UNCHANGED <<taskVars, queue, callargs, fn, args, pidx, calls, sched,
                   cur, futureVars, hookVars, events>>

\* A subscriber of `done` raised: after its pass emit raises to its caller,
\* _process_future, which catches nothing and ends with the exception before
\* it looks at future.exception().
DoneRaises(h) ==
    /\ fpc[h] = "result"
    /\ fpc' = [fpc EXCEPT ![h] = "raised"]
    /\ UNCHANGED <<taskVars, queue, callVars, futureVars, hooked, nproc,
                   nremoved, emitting, events>>

NextRaise ==
    \/ Next
    \/ SubmittedRaises
    \/ \E h \in Handles : DoneRaises(h)

\* A Task with one plugin.
InitRaise ==
    /\ Init
    /\ plugins = <<"inc">>

SpecRaise == InitRaise /\ [][NextRaise]_vars

\* -------------------------------------- a callback calls the Task again

\* The locals of a call of the Task that is suspended in a callback.
Frame == [pc |-> pc, callargs |-> callargs, fn |-> fn, args |-> args,
          pidx |-> pidx, calls |-> calls, sched |-> sched, cur |-> cur]

\* A subscriber runs for the future of the call in progress, on the thread of
\* the call: a subscriber of `submitted`, or, the backend being sequential
\* and _process_future called by add_done_callback, one of `done`, `returned`
\* or `exception`.
InCallback ==
    /\ cur # 0
    /\ \/ pc = "subscribers"
       \/ pc = "hook" /\ fpc[cur] \in {"result", "finished"}

\* The subscriber calls task(a): the call in progress waits for it.
Reenter(a) ==
    /\ backend = "sequential"
    /\ InCallback
    /\ cur \notin chained
    /\ stack' = Append(stack, Frame)
    /\ chained' = chained \cup {cur}
    /\ callargs' = a
    /\ fn' = function
    /\ args' = a
    /\ pidx' = 1
    /\ calls' = <<>>
    /\ sched' = NoSched
    /\ cur' = 0
    /\ ret' = NoReturn
    /\ pc' = "plugins"
    /\ UNCHANGED <<backend, function, plugins, readVars, emitVars, objectVars,
                   optunaVars, stepVars,
                   queue, futureVars, hookVars, emitting, events>>

\* Fault: the call made by the subscriber returns to the caller of the
\* outermost call; the calls in between are given up.
ResumeOutermost ==
    /\ pc = "idle"
    /\ stack # <<>>
    /\ stack' = <<>>
    /\ callargs' = stack[1].callargs
    /\ fn' = stack[1].fn
    /\ args' = stack[1].args
    /\ pidx' = stack[1].pidx
    /\ calls' = stack[1].calls
    /\ sched' = stack[1].sched
    /\ cur' = stack[1].cur
    /\ ret' = stack[1].cur
    /\ pc' = "idle"
    /\ UNCHANGED <<backend, function, plugins, readVars, emitVars, objectVars,
                   optunaVars, stepVars,
                   chained, queue, futureVars, hookVars, emitting, events>>

\* The call made by the subscriber returned: the subscriber, and with it the
\* call that waited, goes on.
Resume ==
    /\ pc = "idle"
    /\ stack # <<>>
    /\ stack' = SubSeq(stack, 1, Len(stack) - 1)
    /\ callargs' = stack[Len(stack)].callargs
    /\ fn' = stack[Len(stack)].fn
    /\ args' = stack[Len(stack)].args
    /\ pidx' = stack[Len(stack)].pidx
    /\ calls' = stack[Len(stack)].calls
    /\ sched' = stack[Len(stack)].sched
    /\ cur' = stack[Len(stack)].cur
    /\ pc' = stack[Len(stack)].pc
    /\ UNCHANGED <<backend, function, plugins, readVars, emitVars, objectVars,
                   optunaVars, stepVars,
                   chained, ret, queue, futureVars, hookVars, emitting,
                   events>>

\* One thread: a call of the caller's begins when none is in progress, and
\* _process_future runs for the future of the call that called it; no future
\* of the sequential backend is cancelled. The backend rejects when it has
\* handed out all its futures.
NextReentrant ==
    \/ \E a \in Args : stack = <<>> /\ Call(a)
    \/ PreSubmit
    \/ SchedulerRejects
    \/ nh < MaxHandles /\ SchedulerAccepts
    \/ QueueAppend
    \/ EmitSubmitted
    \/ SubmittedReturns
    \/ AddDoneCallback
    \/ Return
    \/ \E h \in Handles : h = cur /\ pc = "hook" /\ ProcessFutureRemove(h)
    \/ \E h \in Handles : h = cur /\ pc = "hook" /\ ProcessFutureDone(h)
    \/ \E h \in Handles : h = cur /\ pc = "hook" /\ ProcessFutureResult(h)
    \/ \E a \in Args : Reenter(a)
    \/ Resume

\* A Task with at most one plugin on the sequential backend.
InitReentrant ==
    /\ Init
    /\ backend = "sequential"
    /\ Len(plugins) <= 1

SpecReentrant == InitReentrant /\ [][NextReentrant]_vars

\* ------------------------------- a callback that always submits again

\* The subscriber of `returned` that calls the Task again has not yet done
\* so for the future of the call in progress.
CallbackPending ==
    /\ pc = "hook"
    /\ fpc[cur] = "finished"
    /\ ~FutureHasException(cur)
    /\ cur \notin chained

\* The backend has handed out all its futures and rejects from now on.
BackendExhausted == nh >= MaxHandles

\* The caller calls the Task once; every `returned` has a subscriber that
\* calls the Task again, on the thread that emits, before the call that
\* emitted goes on. The backend accepts until it is exhausted.
NextChain ==
    \/ \E a \in Args : stack = <<>> /\ nh = 0 /\ Call(a)
    \/ PreSubmit
    \/ BackendExhausted /\ SchedulerRejects
    \/ ~BackendExhausted /\ SchedulerAccepts
    \/ QueueAppend
    \/ EmitSubmitted
    \/ SubmittedReturns
    \/ AddDoneCallback
    \/ ~CallbackPending /\ Return
    \/ \E h \in Handles : h = cur /\ pc = "hook" /\ ProcessFutureRemove(h)
    \/ \E h \in Handles : h = cur /\ pc = "hook" /\ ProcessFutureDone(h)
    \/ \E h \in Handles : h = cur /\ pc = "hook" /\ ProcessFutureResult(h)
    \/ \E a \in Args : CallbackPending /\ Reenter(a)
    \/ Resume

\* A Task with at most one plugin on the sequential backend.
InitChain ==
    /\ Init
    /\ backend = "sequential"
    /\ Len(plugins) <= 1

\* The one thread runs on as long as it has a step to take.
SpecChain == InitChain /\ [][NextChain]_vars /\ WF_vars(NextChain)

\* ------------------------------------------------- OptunaOptimizer.create

optunaFrame == <<taskCore, emitVars, objectVars, stepVars>>

Seeds == 0 .. MaxSeed

\* amltk.randomness.as_int(seed): the seed itself, or a fresh integer when
\* the seed is None.
as_int(seed) == IF seed = NoSeed THEN Seeds ELSE {seed}

\* The samplers a caller passes, and the arguments of a call.
Samplers == [kind : {"RandomSampler", "TPESampler"}, seed : Seeds]
MetricLists == UNION {[1 .. n -> BOOLEAN] : n \in 1 .. MaxMetrics}
CreateArgs ==
    {a \in [space : {"node", "space"}, metrics : MetricLists,
            single : BOOLEAN, bucket : {"none", "str", "bucket"},
            sampler : Samplers \cup {NoSampler},
            seed : Seeds \cup {NoSeed}, direction : BOOLEAN] :
        a.single => Len(a.metrics) = 1}

\* StudyDirection.MINIMIZE if m.minimize else StudyDirection.MAXIMIZE
Directions(metrics) ==
    [i \in 1 .. Len(metrics) |->
        IF metrics[i] THEN "MINIMIZE" ELSE "MAXIMIZE"]

\* The sampler of the documentation: TPESampler for a single metric,
\* NSGAIISampler for a list of metrics.
DefaultKind(single) == IF single THEN "TPESampler" ELSE "NSGAIISampler"

\* optuna.create_study(direction=..., **kwargs) without a sampler: optuna
\* picks its own sampler for the number of directions, with no seed.
create_study(single, directions) ==
    [directions |-> directions,
     sampler |-> [kind |-> DefaultKind(single), seed |-> NoSeed]]

\* OptunaOptimizer.create(space=, metrics=, bucket=, sampler=, seed=, **kwargs)
Create(a) ==
    /\ opc = "idle"
    /\ opc' = "direction"
    /\ oargs' = a
    /\ ostudy' = NoStudy
    /\ osampler' = a.sampler
    /\ oself' = NoOptimizer
    /\ UNCHANGED optunaFrame

\* if "direction" in kwargs: raise ValueError
CreateRaises ==
    /\ opc = "direction"
    /\ oargs.direction
    /\ opc' = "raised"
    /\ UNCHANGED <<oargs, ostudy, osampler, oself, optunaFrame>>

\* if isinstance(space, Node): space = space.search_space(...)
CreateSpace ==
    /\ opc = "direction"
    /\ ~oargs.direction
    /\ opc' = "bucket"
    /\ oargs' = [oargs EXCEPT !.space = "space"]
    /\ UNCHANGED <<ostudy, osampler, oself, optunaFrame>>

\* match bucket: None and str() | Path() become a PathBucket.
CreateBucket ==
    /\ opc = "bucket"
    /\ opc' = "study"
    /\ oargs' = [oargs EXCEPT !.bucket = "bucket"]
    /\ UNCHANGED <<ostudy, osampler, oself, optunaFrame>>

\* match metrics: study = optuna.create_study(direction(s)=..., **kwargs)
CreateStudy ==
    /\ opc = "study"
    /\ opc' = "sampler"
    /\ ostudy' = create_study(oargs.single, Directions(oargs.metrics))
    /\ UNCHANGED <<oargs, osampler, oself, optunaFrame>>

\* if sampler is None: sampler = TPESampler(seed=sampler_seed), or
\* NSGAIISampler(seed=sampler_seed)
CreateSampler ==
    /\ opc = "sampler"
    /\ opc' = "init"
    /\ IF osampler = NoSampler
       THEN \E sampler_seed \in as_int(oargs.seed) :
                osampler' = [kind |-> DefaultKind(oargs.single),
                             seed |-> sampler_seed]
       ELSE osampler' = osampler
    /\ UNCHANGED <<oargs, ostudy, oself, optunaFrame>>

\* return cls(study=study, metrics=metrics, space=space, bucket=bucket,
\* seed=seed), with OptunaOptimizer.__init__: the directions of the study are
\* verified against the metrics, then the fields are assigned.
CreateReturn ==
    /\ opc = "init"
    /\ IF ostudy.directions # Directions(oargs.metrics)
       THEN opc' = "raised" /\ oself' = oself
       ELSE /\ opc' = "returned"
            /\ \E seed \in as_int(oargs.seed) :
                   oself' = [study |-> ostudy, metrics |-> oargs.metrics,
                             space |-> oargs.space, bucket |-> oargs.bucket,
                             seed |-> seed]
    /\ UNCHANGED <<oargs, ostudy, osampler, optunaFrame>>

NextOptuna ==
    \/ \E a \in CreateArgs : Create(a)
    \/ CreateRaises
    \/ CreateSpace
    \/ CreateBucket
    \/ CreateStudy
    \/ CreateSampler
    \/ CreateReturn

\* A classmethod: one call is all there is to see, whatever the Task.
InitOptuna == Init /\ backend = "sequential" /\ plugins = <<>>

SpecOptuna == InitOptuna /\ [][NextOptuna]_vars

\* ------------------------------------------------------------------- Step

stepFrame == <<taskCore, emitVars, objectVars, optunaVars>>

\* name: Key
StepNames == {"a", "b"}

\* An argument of Step.join: a Step, or an iterable of Steps.
StepArg(s) == [step |-> s, items |-> <<>>]
IterableArg(items) == [step |-> 0, items |-> items]
IsStep(a) == a.step # 0
StepArgs(heap) ==
    {StepArg(s) : s \in DOMAIN heap}
        \cup {IterableArg(items) : items \in SeqUpTo(DOMAIN heap, MaxItems)}

\* Fault: the step named to is yielded before the iteration stops.
RECURSIVE iterThrough(_, _, _, _, _)
iterThrough(heap, self, backwards, include_self, to) ==
    (IF include_self THEN <<self>> ELSE <<>>)
    \o (IF to # NoKey /\ heap[self].name = to
        THEN <<>>
        ELSE IF backwards
             THEN IF heap[self].prv # 0
                  THEN iterThrough(heap, heap[self].prv, TRUE, TRUE, to)
                  ELSE <<>>
             ELSE IF heap[self].nxt # 0
                  THEN iterThrough(heap, heap[self].nxt, FALSE, TRUE, to)
                  ELSE <<>>)

\* Step.iter(backwards=, include_self=, to=), where to is a name (a Step
\* passed as to is replaced by its name at once).
RECURSIVE iter(_, _, _, _, _)
iter(heap, self, backwards, include_self, to) ==
    IF to # NoKey /\ heap[self].name = to
    THEN <<>>
    ELSE (IF include_self THEN <<self>> ELSE <<>>)
         \o (IF backwards
             THEN IF heap[self].prv # 0
                  THEN iter(heap, heap[self].prv, TRUE, TRUE, to)
                  ELSE <<>>
             ELSE IF heap[self].nxt # 0
                  THEN iter(heap, heap[self].nxt, FALSE, TRUE, to)
                  ELSE <<>>)

\* more_itertools.last
last(s) == s[Len(s)]

\* Step.head, Step.tail, Step.proceeding, Step.preceeding
head(heap, self) == last(iter(heap, self, TRUE, TRUE, NoKey))
tail(heap, self) == last(iter(heap, self, FALSE, TRUE, NoKey))
proceeding(heap, self) == iter(heap, self, FALSE, FALSE, NoKey)
preceeding(heap, self) == iter(heap, self, TRUE, FALSE, NoKey)

\* Fault: a Step argument is expanded from the head of its chain, so the steps
\* before it are chained as well.
RECURSIVE expandedFromHead(_, _)
expandedFromHead(heap, sargs) ==
    IF sargs = <<>>
    THEN <<>>
    ELSE (IF IsStep(Head(sargs))
          THEN iter(heap, head(heap, Head(sargs).step), FALSE, TRUE, NoKey)
          ELSE Head(sargs).items)
         \o expandedFromHead(heap, Tail(sargs))

\* chain.from_iterable(s.iter() if isinstance(s, Step) else s for s in steps)
RECURSIVE expanded(_, _)
expanded(heap, sargs) ==
    IF sargs = <<>>
    THEN <<>>
    ELSE (IF IsStep(Head(sargs))
          THEN iter(heap, Head(sargs).step, FALSE, TRUE, NoKey)
          ELSE Head(sargs).items)
         \o expanded(heap, Tail(sargs))

\* copy(s): a new object with the fields of s.
copy(heap, s) == heap[s]

\* Fault: no copies, the steps passed are linked themselves.
chainInPlace(heap, sargs) ==
    LET e == expanded(heap, sargs)
        n == Len(e)
        at(s) == CHOOSE k \in 1 .. n :
                     e[k] = s /\ \A j \in 1 .. n : e[j] = s => j <= k
    IN  [heap |-> [s \in DOMAIN heap |->
                      IF \E k \in 1 .. n : e[k] = s
                      THEN [heap[s] EXCEPT
                               !.prv = IF at(s) = 1 THEN 0 ELSE e[at(s) - 1],
                               !.nxt = IF at(s) = n THEN 0 ELSE e[at(s) + 1]]
                      ELSE heap[s]],
         yielded |-> e]

\* Step.chain(*steps): the copies are made, then each is given the copy
\* before it as prv and the copy after it as nxt, None at both ends. The
\* value is the heap afterwards and the steps yielded.
chain(heap, sargs) ==
    LET e == expanded(heap, sargs)
        n == Len(e)
        new_steps == [i \in 1 .. n |-> copy(heap, e[i])]
        at(i) == Len(heap) + i
        linked == [i \in 1 .. n |->
                      [new_steps[i] EXCEPT
                          !.prv = IF i = 1 THEN 0 ELSE at(i - 1),
                          !.nxt = IF i = n THEN 0 ELSE at(i + 1)]]
    IN  [heap |-> heap \o linked, yielded |-> [i \in 1 .. n |-> at(i)]]

\* The steps an argument brings into the chain, and the lists of at most n
\* arguments that bring at most room steps: a longer chain has no place among
\* MaxSteps objects.
ArgSize(heap, a) ==
    IF IsStep(a) THEN Len(iter(heap, a.step, FALSE, TRUE, NoKey))
                 ELSE Len(a.items)
RECURSIVE JoinArgs(_, _, _)
JoinArgs(heap, n, room) ==
    {<<>>} \cup
        IF n = 0
        THEN {}
        ELSE UNION {{<<a>> \o rest :
                        rest \in JoinArgs(heap, n - 1, room - ArgSize(heap, a))} :
                    a \in {x \in StepArgs(heap) : ArgSize(heap, x) <= room}}

StepCall(op, self, sargs) == [NoStepCall EXCEPT !.op = op, !.self = self,
                                               !.args = sargs]

\* Fault: without a head, None is returned and no error is raised.
joinReturnsNone(op, self, sargs) ==
    LET c == chain(steps, sargs)
    IN  /\ Len(c.heap) <= MaxSteps
        /\ steps' = c.heap
        /\ lastcall' = IF c.yielded = <<>>
                       THEN StepCall(op, self, sargs)
                       ELSE [StepCall(op, self, sargs) EXCEPT
                                !.result = <<Head(c.yielded)>>]
        /\ UNCHANGED stepFrame

\* Step.join(*steps): head = next(itr, None); ValueError when there is none.
join(op, self, sargs) ==
    LET c == chain(steps, sargs)
    IN  /\ Len(c.heap) <= MaxSteps
        /\ steps' = c.heap
        /\ lastcall' = IF c.yielded = <<>>
                       THEN [StepCall(op, self, sargs) EXCEPT !.raised = TRUE]
                       ELSE [StepCall(op, self, sargs) EXCEPT
                                !.result = <<Head(c.yielded)>>]
        /\ UNCHANGED stepFrame

\* Step(name=name)
NewStep(name) ==
    /\ Len(steps) < MaxSteps
    /\ steps' = Append(steps, [name |-> name, prv |-> 0, nxt |-> 0])
    /\ lastcall' = [StepCall("new", 0, <<>>) EXCEPT !.result = <<Len(steps) + 1>>]
    /\ UNCHANGED stepFrame

\* Step.join(*steps)
StepJoin(sargs) == join("join", 0, sargs)

\* self.append(nxt): Step.join(self, nxt)
StepAppend(self, nxt) == join("append", self, <<StepArg(self), StepArg(nxt)>>)

\* self.extend(nxt): Step.join(self, nxt)
StepExtend(self, nxt) ==
    join("extend", self, <<StepArg(self), IterableArg(nxt)>>)

\* self | nxt: NotImplemented unless nxt is a Step, else self.append(nxt)
StepOr(self, nxt) ==
    IF ~IsStep(nxt)
    THEN /\ lastcall' = [StepCall("or", self, <<StepArg(self), nxt>>) EXCEPT
                            !.raised = TRUE]
         /\ UNCHANGED <<steps, stepFrame>>
    ELSE join("or", self, <<StepArg(self), nxt>>)

\* self.mutate(**kwargs): evolve(self, **{**kwargs, "prv": None, "nxt": None})
StepMutate(self, kwargs) ==
    LET merged == [kwargs EXCEPT !.prv = 0, !.nxt = 0]
        evolved == [name |-> IF merged.name = NoKey THEN steps[self].name
                                                    ELSE merged.name,
                    prv |-> merged.prv, nxt |-> merged.nxt]
    IN  /\ Len(steps) < MaxSteps
        /\ steps' = Append(steps, evolved)
        /\ lastcall' = [StepCall("mutate", self, <<>>) EXCEPT
                           !.to = kwargs.name, !.result = <<Len(steps) + 1>>]
        /\ UNCHANGED stepFrame

\* The keyword arguments of a mutate: a name or none, and a prv and a nxt,
\* which are the step itself where they are given.
MutateKwargs(self) ==
    [name : StepNames \cup {NoKey}, prv : {0, self}, nxt : {0, self}]

\* list(self.iter(backwards=, include_self=, to=))
StepIter(self, backwards, include_self, to) ==
    /\ lastcall' = [StepCall("iter", self, <<>>) EXCEPT
                       !.backwards = backwards, !.include_self = include_self,
                       !.to = to,
                       !.result = iter(steps, self, backwards, include_self, to)]
    /\ UNCHANGED <<steps, stepFrame>>

\* self.head(), self.tail()
StepHead(self) ==
    /\ lastcall' = [StepCall("head", self, <<>>) EXCEPT
                       !.result = <<head(steps, self)>>]
    /\ UNCHANGED <<steps, stepFrame>>

StepTail(self) ==
    /\ lastcall' = [StepCall("tail", self, <<>>) EXCEPT
                       !.result = <<tail(steps, self)>>]
    /\ UNCHANGED <<steps, stepFrame>>

\* list(self.proceeding()), list(self.preceeding())
StepProceeding(self) ==
    /\ lastcall' = [StepCall("proceeding", self, <<>>) EXCEPT
                       !.result = proceeding(steps, self)]
    /\ UNCHANGED <<steps, stepFrame>>

StepPreceeding(self) ==
    /\ lastcall' = [StepCall("preceeding", self, <<>>) EXCEPT
                       !.result = preceeding(steps, self)]
    /\ UNCHANGED <<steps, stepFrame>>

NextStep ==
    \/ \E name \in StepNames : NewStep(name)
    \/ \E sargs \in JoinArgs(steps, MaxArgs, MaxSteps - Len(steps)) :
           StepJoin(sargs)
    \/ \E self, nxt \in DOMAIN steps : StepAppend(self, nxt)
    \/ \E self \in DOMAIN steps :
           \E nxt \in SeqUpTo(DOMAIN steps, MaxItems) : StepExtend(self, nxt)
    \/ \E self \in DOMAIN steps :
           \E nxt \in {StepArg(s) : s \in DOMAIN steps}
                       \cup {IterableArg(<<>>), IterableArg(<<self>>)} :
               StepOr(self, nxt)
    \/ \E self \in DOMAIN steps :
           \E kwargs \in MutateKwargs(self) : StepMutate(self, kwargs)
    \/ \E self \in DOMAIN steps : \E backwards, include_self \in BOOLEAN :
           \E to \in StepNames \cup {NoKey} :
               StepIter(self, backwards, include_self, to)
    \/ \E self \in DOMAIN steps : StepHead(self)
    \/ \E self \in DOMAIN steps : StepTail(self)
    \/ \E self \in DOMAIN steps : StepProceeding(self)
    \/ \E self \in DOMAIN steps : StepPreceeding(self)

\* Steps are plain objects: the Task plays no part.
InitStep == Init /\ backend = "sequential" /\ plugins = <<>>

SpecStep == InitStep /\ [][NextStep]_vars

\* ------------------------------------------------------------------ claims


\* The names of the events emitted for future h, in order.
Names(h) == [i \in 1 .. Len(events[h]) |-> events[h][i].name]

SeqReturned == <<"submitted", "done", "returned">>
SeqException == <<"submitted", "done", "exception">>
SeqCancelled == <<"submitted", "cancelled">>
Legal == {SeqReturned, SeqException, SeqCancelled}

\* The futures Task.__call__ has appended to the queue (line 263 was run).
Appended == {h \in 1 .. nh : ~(pc = "append" /\ cur = h)}

\* _process_future(h) has not removed h yet.
Unfinalized(h) == fpc[h] \in {"none", "remove"}

TypeOK ==
    /\ backend \in Backends
    /\ plugins \in SeqUpTo(PluginKinds, MaxPlugins)
    /\ queue \in SeqUpTo(Handles, MaxHandles)
    /\ pc \in {"idle", "plugins", "append", "emit", "subscribers",
               "register", "hook", "return"}
    /\ nh \in 0 .. MaxHandles
    /\ cur \in 0 .. nh
    /\ hstate \in [Handles -> FutureStates]
    /\ fpc \in [Handles -> {"none", "remove", "check", "result",
                            "finished", "raised"}]

C2_Original ==
    Len(queue) = Cardinality({h \in Appended : ~FutureDone(h)})

\* C2, amended: the length of the queue is the number of appended futures
\* that _process_future has not removed yet. A terminal future stays in the
\* queue until its _process_future runs, so every appended future that is
\* not terminal is in the queue, and the queue can hold more than those.
C2_QueueHoldsUnfinalized ==
    /\ Len(queue) = Cardinality({h \in Appended : Unfinalized(h)})
    /\ \A h \in Appended : ~FutureDone(h) => InSeq(queue, h)
    /\ Len(queue) >= Cardinality({h \in Appended : ~FutureDone(h)})

\* C2's case: a terminal future is still in the queue, beside a pending one.
C2_Witness ==
    /\ Len(queue) = 2
    /\ FutureDone(queue[1])
    /\ ~FutureDone(queue[2])

\* C3: an appended future is in the queue, once, until its _process_future
\* removes it; _process_future is entered at most once for a future, removes
\* it once, never finds it missing, and leaves no copy of it in the queue.
C3_RemovedExactlyOnce ==
    \A h \in Handles :
        /\ nproc[h] <= 1
        /\ nremoved[h] <= 1
        /\ fpc[h] # "raised"
        /\ (h \in Appended /\ Unfinalized(h)) => Count(queue, h) = 1
        /\ ~Unfinalized(h) => (nremoved[h] = 1 /\ ~InSeq(queue, h))
        /\ h \notin Appended => ~InSeq(queue, h)

\* C3's case: a worker completed the future while the submitting thread was
\* still inside Task.__call__ for it, and the hook ran and removed it.
C3_Witness ==
    /\ backend = "thread"
    /\ pc \in {"hook", "return"}
    /\ cur = 1
    /\ nproc[1] = 1
    /\ nremoved[1] = 1
    /\ fpc[1] = "finished"

\* The call in progress ended, or ends in this step, with a veto.
Vetoed(cs) == Len(cs) > 0 /\ cs[Len(cs)].veto

\* C4: the step in which a plugin's pre_submit vetoes ends the call with
\* None and changes neither the queue, the events, the futures nor the
\* hooks, and scheduler.submit is not called; no pre_submit is called after
\* the veto; and a Task with a plugin that always vetoes never gets a future,
\* an event or a longer queue.
C4_VetoAborts ==
    /\ [][(calls' # calls /\ Vetoed(calls')) =>
            /\ pc' = "idle"
            /\ ret' = None
            /\ ~sched'.called
            /\ UNCHANGED <<queue, events, futureVars, hookVars, emitting>>]_vars
    /\ [](\A i \in 1 .. Len(calls) :
            calls[i].veto =>
                /\ i = Len(calls)
                /\ pc = "idle"
                /\ ret = None
                /\ ~sched.called)
    /\ []((\E i \in 1 .. Len(plugins) : plugins[i] = "veto") =>
            /\ queue = <<>>
            /\ nh = 0
            /\ ret \in {NoReturn, None}
            /\ ~sched.called
            /\ \A h \in Handles : events[h] = <<>>)

\* C4's case: the second plugin vetoed what the first one had rewritten.
C4_Witness ==
    /\ pc = "idle"
    /\ ret = None
    /\ Len(calls) = 2
    /\ ~calls[1].veto
    /\ calls[2].veto
    /\ queue = <<>>

\* C5: the step in which scheduler.submit returns None ends the call with
\* None (a return, the call does not go on) and changes neither the queue,
\* the events, the futures nor the hooks.
C5_RejectionReturnsNone ==
    /\ [][(sched'.called /\ ~sched.called /\ nh' = nh) =>
            /\ pc' = "idle"
            /\ ret' = None
            /\ cur' = 0
            /\ UNCHANGED <<queue, events, futureVars, hookVars, emitting>>]_vars
    /\ []((pc = "idle" /\ sched.called /\ cur = 0) => ret = None)

\* C5's case: the scheduler rejected a call while an earlier future was
\* still in the queue.
C5_Witness ==
    /\ pc = "idle"
    /\ ret = None
    /\ sched.called
    /\ cur = 0
    /\ nh = 1
    /\ queue = <<1>>

\* C6: the i-th pre_submit call of a submission is the i-th attached
\* plugin's, and it receives what the call before it returned (the first
\* one the Task's function and the caller's arguments); scheduler.submit is
\* called after every plugin, with what the last one returned, and the
\* future runs exactly that.
C6_PluginChainThreaded ==
    /\ \A i \in 1 .. Len(calls) :
          /\ calls[i].plugin = i
          /\ calls[i].fn = IF i = 1 THEN function ELSE calls[i - 1].outfn
          /\ calls[i].args = IF i = 1 THEN callargs ELSE calls[i - 1].outargs
          /\ calls[i].veto = PreSubmitVetoes(plugins[i])
    /\ sched.called =>
          /\ Len(calls) = Len(plugins)
          /\ sched.fn = IF calls = <<>> THEN function
                        ELSE calls[Len(calls)].outfn
          /\ sched.args = IF calls = <<>> THEN callargs
                          ELSE calls[Len(calls)].outargs
    /\ (sched.called /\ cur # 0) =>
          /\ hfn[cur] = sched.fn
          /\ hargs[cur] = sched.args

\* C6's case: two plugins rewrote both the function and the arguments, in an
\* order that shows in the result, and the scheduler took the call.
C6_Witness ==
    /\ plugins = <<"wrap", "inc">>
    /\ callargs = 2
    /\ sched.called
    /\ cur # 0
    /\ hfn[cur] = 1
    /\ hargs[cur] = 2

\* The payload of the last event of future h.
LastPayload(h) == events[h][Len(events[h])].payload

BeforeRegistration(h) ==
    cur = h /\ pc \in {"append", "emit", "subscribers", "register"}

\* C9 as stated: between scheduler.submit returning the future and
\* add_done_callback, no event is emitted and no subscriber runs.
C9_Original ==
    \A h \in Handles :
        BeforeRegistration(h) => (events[h] = <<>> /\ ~emitting[h])

\* C9, amended: between scheduler.submit returning the future and
\* add_done_callback the submitting thread appends the future to the queue
\* and emits `submitted` for it, and nothing else: no other event of the
\* future is emitted before the hook is there, and add_done_callback is the
\* step right after the emission of `submitted`.
C9_RegisterAfterSubmitted ==
    \A h \in Handles :
        /\ BeforeRegistration(h) =>
              /\ ~hooked[h]
              /\ nproc[h] = 0
              /\ IsPrefix(Names(h), <<"submitted">>)
        /\ (cur = h /\ pc = "register") =>
              /\ Names(h) = <<"submitted">>
              /\ InSeq(queue, h)
        /\ (hooked[h] \/ nproc[h] > 0) =>
              (Len(events[h]) >= 1 /\ events[h][1].name = "submitted")

\* C9's case: the subscribers of `submitted` run while the future has no
\* hook yet.
C9_Witness ==
    /\ pc = "subscribers"
    /\ cur = 1
    /\ emitting[1]
    /\ ~hooked[1]
    /\ Names(1) = <<"submitted">>

\* The event that this step emits for h is `done` or `cancelled`.
BeginsCompletion(h) ==
    /\ Len(events'[h]) = Len(events[h]) + 1
    /\ events'[h][Len(events'[h])].name \in {"done", "cancelled"}

\* C10: while subscribers of `submitted` run for a future it has no hook
\* and _process_future was not entered for it, whatever the workers did to
\* it meanwhile; so the step that emits its `done` or `cancelled` finds
\* `submitted` emitted and its subscribers finished.
C10_SubmittedBeforeCompletion ==
    /\ [](\A h \in Handles :
            emitting[h] =>
                /\ ~hooked[h]
                /\ nproc[h] = 0
                /\ Names(h) = <<"submitted">>)
    /\ [][\A h \in Handles :
            BeginsCompletion(h) =>
                (~emitting[h] /\ Names(h) = <<"submitted">>)]_vars

\* C10's case: under a thread pool a worker completed the future before the
\* hook was added (the hook ran inline), and done and returned followed
\* `submitted`.
C10_Witness ==
    /\ backend = "thread"
    /\ ~hooked[1]
    /\ nproc[1] = 1
    /\ fpc[1] = "finished"
    /\ Names(1) = SeqReturned

\* C14: attach_plugin appends the plugin and touches neither the queue, the
\* futures, their events nor the call in progress; a call that reaches the
\* scheduler has run every plugin attached by then, in attachment order, the
\* newest last; what a future was dispatched with never changes; and a
\* future processed after an attach still has one of the three sequences.
C14_AttachAffectsLaterCalls ==
    /\ [][plugins' # plugins =>
            /\ \E k \in PluginKinds : plugins' = Append(plugins, k)
            /\ UNCHANGED <<queue, events, futureVars, hookVars, calls,
                           sched, fn, args, pidx>>]_vars
    /\ [][(sched'.called /\ ~sched.called) =>
            /\ Len(calls) = Len(plugins)
            /\ \A i \in 1 .. Len(calls) :
                  /\ calls[i].plugin = i
                  /\ calls[i].veto = PreSubmitVetoes(plugins[i])
                  /\ calls[i].outfn =
                        PreSubmitFn(plugins[i], calls[i].fn, calls[i].args)]_vars
    /\ [][\A h \in 1 .. nh :
            hfn'[h] = hfn[h] /\ hargs'[h] = hargs[h]]_vars
    /\ [](\A h \in Handles : fpc[h] = "finished" => Names(h) \in Legal)

\* C14's case: the first future was dispatched with the Task's own function,
\* a wrapping plugin was attached afterwards, behind the one that was there,
\* the second future runs the wrapped function, and the first one was
\* processed in full.
C14_Witness ==
    /\ plugins = <<"inc", "wrap">>
    /\ nh = 2
    /\ hfn[1] = 0
    /\ hfn[2] = 1
    /\ Len(calls) = 2
    /\ fpc[1] = "finished"
    /\ Names(1) = SeqReturned

C20_RewriteIsPerCall ==
    /\ [][UNCHANGED <<function, plugins>>]_vars
    /\ []((pc = "plugins" /\ pidx = 1) =>
            (fn = function /\ args = callargs /\ calls = <<>>))
    /\ [](Len(calls) >= 1 => calls[1].fn = function)

\* C20's case: the first submission ran a wrapped function with rewritten
\* arguments, and the next call starts again from the Task's function.
C20_Witness ==
    /\ nh = 1
    /\ hfn[1] = 1
    /\ ret = NoReturn
    /\ pc = "plugins"
    /\ pidx = 1
    /\ fn = 0
    /\ function = 0
    /\ args = callargs

\* C16: the step of _process_future that does not find its future in the
\* queue raises: it leaves the queue and the events as they are and removes
\* nothing, and no event is emitted for the future by that call afterwards.
C16_MissingHandleRaises ==
    /\ [][\A h \in Handles :
            (fpc[h] = "remove" /\ ~InSeq(queue, h) /\ fpc'[h] # "remove") =>
                /\ fpc'[h] = "raised"
                /\ UNCHANGED <<queue, events, nremoved>>]_vars
    /\ [][\A h \in Handles :
            fpc[h] = "raised" =>
                /\ events'[h] = events[h]
                /\ fpc'[h] \in {"raised", "remove"}]_vars
    /\ [](\A h \in Handles : nremoved[h] <= 1 /\ Count(Names(h), "done") <= 1)

\* C16's case: a future was processed, _process_future was called for it
\* again and raised, while another future was in the queue.
C16_Witness ==
    /\ fpc[1] = "raised"
    /\ nproc[1] = 2
    /\ Names(1) = SeqReturned
    /\ queue = <<2>>

\* The futures in the queue that are not done.
QueuedNotDone == {h \in Handles : InSeq(queue, h) /\ hstate[h] \notin Terminal}

C18_Original ==
    [][(rpc = "iter" /\ rpc' = "idle") =>
         rresult' >= Cardinality({h \in QueuedNotDone : InSeq(rstart, h)})]_vars

\* C19: emit is fail-after-all. Whatever callback raises, the pass invokes
\* every callback that was registered when emit began, once and in
\* registration order; emit ends only after the last of them, and it raises
\* exactly when a callback of the pass raised, with every failure collected.
C19_FailAfterAll ==
    /\ [](epc = "pass" =>
            /\ eidx \in 1 .. Len(esnap) + 1
            /\ Len(einvoked) = eidx - 1)
    /\ [](\A i \in 1 .. Len(einvoked) : einvoked[i].callback = esnap[i])
    /\ [](epc \in {"returned", "raised"} =>
            /\ Len(einvoked) = Len(esnap)
            /\ (epc = "raised") <=> (\E i \in 1 .. Len(einvoked) :
                                        einvoked[i].raised)
            /\ Len(efailed) =
                 Cardinality({i \in 1 .. Len(einvoked) : einvoked[i].raised}))
    /\ [][epc' = "pass" /\ epc # "pass" => esnap' = subs]_vars

\* C19's case: the first of two callbacks raised, the second was invoked
\* all the same, and emit raised afterwards.
C19_Witness ==
    /\ epc = "raised"
    /\ esnap = <<2, 1>>
    /\ einvoked = <<Invocation(2, TRUE), Invocation(1, FALSE)>>
    /\ efailed = <<2>>

\* The plugin objects in the plugin list of Task object t.
PluginsOf(ts, t) == {ts[t].plugins[i] : i \in 1 .. Len(ts[t].plugins)}

\* The futures in the queue of Task object t.
QueueOf(t) == {tasks[t].queue[i] : i \in 1 .. Len(tasks[t].queue)}

\* The step constructs a Task by copy() of another.
IsCopyStep ==
    /\ Len(tasks') = Len(tasks) + 1
    /\ tasks'[Len(tasks')].origin # 0

\* C11: subscriptions are isolated per Task object. An emission invokes
\* only callbacks that were subscribed on the Task object that emits, and it
\* is for a future submitted through that Task; no two Task objects, a Task
\* and its copy() included, have the same unique_ref; a future is only ever
\* in the queue of the Task object it was submitted through.
C11_SubscriptionsIsolated ==
    /\ \A c \in lastemit.called : registry[c].task = lastemit.task
    /\ lastemit.future # 0 => futs[lastemit.future].task = lastemit.task
    /\ \A t1, t2 \in 1 .. Len(tasks) :
         t1 # t2 => /\ UniqueRef(t1) # UniqueRef(t2)
                    /\ QueueOf(t1) \cap QueueOf(t2) = {}
    /\ \A t \in 1 .. Len(tasks) : \A h \in QueueOf(t) : futs[h].task = t

\* C11's case: a callback is subscribed to `returned` on a Task, another on
\* its copy, which has the same name; a future submitted through the copy
\* returned and only the copy's callback was invoked.
C11_Witness ==
    /\ Len(tasks) = 2
    /\ tasks[2].origin = 1
    /\ tasks[2].name = tasks[1].name
    /\ registry[1].task = 1 /\ registry[1].event = "returned"
    /\ registry[2].task = 2 /\ registry[2].event = "returned"
    /\ lastemit = [event |-> "returned", task |-> 2, future |-> 1,
                   called |-> {2}]

\* C12: copy() makes a Task with the function, the scheduler and the name of
\* the original, an empty queue, another unique_ref, and as many plugins of
\* the same kinds, each a new object that is in no other Task's list; the
\* Tasks, plugin objects, subscriptions and futures there were stay as they
\* are.
C12_CopyFrame ==
    [][IsCopyStep =>
         LET n == Len(tasks')
             o == tasks'[n].origin
         IN  /\ o \in 1 .. Len(tasks)
             /\ tasks'[n].function = tasks[o].function
             /\ tasks'[n].scheduler = tasks[o].scheduler
             /\ tasks'[n].name = tasks[o].name
             /\ tasks'[n].queue = <<>>
             /\ <<tasks'[n].name, tasks'[n].uuid>> # UniqueRef(o)
             /\ Len(tasks'[n].plugins) = Len(tasks[o].plugins)
             /\ \A i \in 1 .. Len(tasks[o].plugins) :
                  /\ tasks'[n].plugins[i] \notin 1 .. Len(objs)
                  /\ tasks'[n].plugins[i] \in 1 .. Len(objs')
                  /\ objs'[tasks'[n].plugins[i]].kind =
                       objs[tasks[o].plugins[i]].kind
             /\ \A t \in 1 .. Len(tasks) : tasks'[t] = tasks[t]
             /\ \A p \in 1 .. Len(objs) : objs'[p] = objs[p]
             /\ UNCHANGED <<registry, futs, lastemit>>]_vars

\* C12's case: a Task with a plugin, a queued future and a subscriber has a
\* copy.
C12_Witness ==
    /\ Len(tasks) = 2
    /\ tasks[2].origin = 1
    /\ tasks[1].plugins = <<1>>
    /\ tasks[1].queue = <<1>>
    /\ tasks[2].queue = <<>>
    /\ registry[1].task = 1

\* C13: at every state a plugin object is in the plugin list of at most one
\* Task: constructing a Task with plugins, attach_plugin and copy() never
\* leave the same plugin object in the lists of two Tasks.
C13_Original ==
    \A t1, t2 \in 1 .. Len(tasks) :
        t1 # t2 => PluginsOf(tasks, t1) \cap PluginsOf(tasks, t2) = {}


\* C26: the first event of a future is `submitted`, and its payload is the
\* arguments the future runs with: those handed to scheduler.submit, after
\* every plugin's rewrite. While the call is in progress they are the
\* arguments of that scheduler.submit call, and the caller's own arguments if
\* no plugin changed the arguments it was handed.
C26_SubmittedPayload ==
    /\ \A h \in Handles :
          Len(events[h]) >= 1 =>
              /\ h <= nh
              /\ events[h][1] = Ev("submitted", hargs[h])
    /\ (cur # 0 /\ Len(events[cur]) >= 1) =>
          /\ sched.called
          /\ events[cur][1].payload = sched.args
          /\ (\A i \in 1 .. Len(calls) : calls[i].outargs = calls[i].args) =>
                events[cur][1].payload = callargs

\* C26's case: a plugin rewrote the caller's arguments and `submitted` was
\* emitted with the rewritten ones.
C26_Witness ==
    /\ pc = "subscribers"
    /\ cur = 1
    /\ plugins = <<"inc">>
    /\ callargs = 1
    /\ sched.args # callargs
    /\ events[1] = <<Ev("submitted", sched.args)>>

\* C22: a subscriber of `submitted` that raises never leaves an accepted
\* future in the queue without its done callback: once the call that
\* appended a future is over, the future is out of the queue again or
\* _process_future is registered with it or has been entered for it.
C22_Original ==
    \A h \in Handles :
        (InSeq(queue, h) /\ (pc = "idle" \/ cur # h)) =>
            (hooked[h] \/ nproc[h] > 0)

\* C23: a subscriber of `done` that raises does not cut the events of the
\* future short: when _process_future has ended for a future that is not
\* cancelled, exactly one of `exception` and `returned` was emitted for it.
C23_Original ==
    \A h \in Handles :
        (fpc[h] \in {"finished", "raised"} /\ nremoved[h] = 1
            /\ ~FutureCancelled(h)) =>
            Count(Names(h), "exception") + Count(Names(h), "returned") = 1

\* The calls of the Task in progress, outermost first: those suspended in
\* a callback and, last, the one that runs.
Frames == IF pc = "idle" THEN stack ELSE Append(stack, Frame)

\* What C24 says of every callback alike: the events of each future are a
\* legal sequence in order, no future is finalized twice, and the queue is
\* empty when the outermost call has returned.
ReentrantLifecycle ==
    /\ \A h \in Handles :
          /\ \E l \in Legal : IsPrefix(Names(h), l)
          /\ fpc[h] = "finished" => Names(h) \in Legal
          /\ nproc[h] <= 1
          /\ nremoved[h] <= 1
    /\ (pc = "idle" /\ stack = <<>>) =>
          /\ queue = <<>>
          /\ \A h \in 1 .. nh : fpc[h] = "finished"

\* C24 as stated: whatever lifecycle callback of h1 submits again, h1 is out
\* of the queue while the inner future h2 is processed.
C24_Original ==
    /\ ReentrantLifecycle
    /\ \A i \in 1 .. Len(stack) : cur # 0 => ~InSeq(queue, stack[i].cur)

\* C24, amended: a call suspended in a callback of `done`, `returned` or
\* `exception` has its future out of the queue, removed once, while the
\* inner calls run; a call suspended in a callback of `submitted` has its
\* future in the queue, not yet in _process_future, and it is removed after
\* the inner call returned. The queue holds exactly the futures of the calls
\* suspended in `submitted` and, from its append to its removal, that of the
\* running call.
C24_ReentrantSubmission ==
    /\ ReentrantLifecycle
    /\ \A i \in 1 .. Len(stack) :
          /\ stack[i].cur # 0
          /\ stack[i].pc \in {"subscribers", "hook"}
          /\ stack[i].pc = "hook" =>
                /\ ~InSeq(queue, stack[i].cur)
                /\ nremoved[stack[i].cur] = 1
                /\ fpc[stack[i].cur] \in {"result", "finished"}
          /\ stack[i].pc = "subscribers" =>
                /\ InSeq(queue, stack[i].cur)
                /\ fpc[stack[i].cur] = "none"
    /\ \A h \in Handles :
          InSeq(queue, h) =>
              \E i \in 1 .. Len(Frames) :
                  /\ Frames[i].cur = h
                  /\ Frames[i].pc \in {"emit", "subscribers", "register",
                                       "hook"}
                  /\ fpc[h] \in {"none", "remove"}

\* C24's case: a subscriber of `returned` of future 1 called the Task, the
\* inner future 2 went through _process_future with future 1 out of the
\* queue, and the outer call is about to go on.
C24_Witness ==
    /\ Len(stack) = 1
    /\ stack[1].cur = 1
    /\ stack[1].pc = "hook"
    /\ Names(1) = SeqReturned
    /\ cur = 2
    /\ pc = "idle"
    /\ ret = 2
    /\ Names(2) \in Legal
    /\ queue = <<>>

\* C25: with a subscriber of `returned` that calls the Task again and a
\* backend that rejects in the end, every call returns: whenever calls are
\* in progress, later none is. A rejected call returns None and leaves the
\* queue and the events as they are; every call whose future was accepted
\* returns that future; the nesting is no deeper than the futures accepted;
\* and the queue is empty when the outermost call has returned.
C25_ChainEnds ==
    /\ (pc # "idle" \/ stack # <<>>) ~> (pc = "idle" /\ stack = <<>>)
    /\ [][(pc = "plugins" /\ pidx > Len(plugins) /\ pc' = "idle") =>
            /\ ret' = None
            /\ UNCHANGED <<queue, events, futureVars, stack>>]_vars
    /\ [][(pc \in {"hook", "return"} /\ pc' = "idle") =>
            /\ cur # 0
            /\ ret' = cur]_vars
    /\ [](Len(stack) <= nh)
    /\ []((pc = "idle" /\ stack = <<>>) => queue = <<>>)

\* C25's case: the callback of the first future submitted a second, the
\* callback of the second a third, which the backend rejected, and every
\* call has returned.
C25_Witness ==
    /\ pc = "idle"
    /\ stack = <<>>
    /\ chained = {1, 2}
    /\ sched.called
    /\ ret = 1
    /\ Names(1) = SeqReturned
    /\ Names(2) = SeqReturned
    /\ queue = <<>>

\* C21: OptunaOptimizer.create returns an optimizer whose study samples with
\* the sampler it was given, and, when it was given none, with a TPESampler
\* (a single metric) or an NSGAIISampler (a list of metrics) seeded with the
\* given seed.
C21_Original ==
    opc = "returned" =>
        IF oargs.sampler # NoSampler
        THEN oself.study.sampler = oargs.sampler
        ELSE /\ oself.study.sampler.kind = DefaultKind(oargs.single)
             /\ oargs.seed # NoSeed => oself.study.sampler.seed = oargs.seed

\* The calls that end in Step.join.
JoinOps == {"join", "append", "extend", "or"}

\* The steps from s on, following nxt.
RECURSIVE FollowNxt(_)
FollowNxt(s) ==
    IF steps[s].nxt = 0 THEN <<s>> ELSE <<s>> \o FollowNxt(steps[s].nxt)

\* What the claim says the chain holds: per argument, the steps from a Step
\* argument on, or the items of an iterable argument.
RECURSIVE ArgumentSteps(_)
ArgumentSteps(sargs) ==
    IF sargs = <<>>
    THEN <<>>
    ELSE (IF Head(sargs).step # 0 THEN FollowNxt(Head(sargs).step)
                                  ELSE Head(sargs).items)
         \o ArgumentSteps(Tail(sargs))

NamesOf(ids) == [i \in 1 .. Len(ids) |-> steps[ids[i]].name]

\* C27: Step.join, append, extend and | return the head of a doubly linked
\* chain: the head has no prv, the tail no nxt, each step is the prv of its
\* nxt, and the chain holds, in argument order, the steps from each Step
\* argument on and the items of each iterable argument, and none of the steps
\* before a Step argument.
C27_JoinedChain ==
    lastcall.op \in JoinOps /\ ~lastcall.raised =>
        LET joined == FollowNxt(lastcall.result[1])
        IN  /\ steps[joined[1]].prv = 0
            /\ steps[joined[Len(joined)]].nxt = 0
            /\ \A i \in 1 .. Len(joined) - 1 :
                   /\ steps[joined[i]].nxt = joined[i + 1]
                   /\ steps[joined[i + 1]].prv = joined[i]
            /\ NamesOf(joined) = NamesOf(ArgumentSteps(lastcall.args))

\* A join of a Step that has steps before it and of an iterable with items.
C27_Witness ==
    /\ lastcall.op = "join"
    /\ ~lastcall.raised
    /\ \E i, j \in DOMAIN lastcall.args :
           /\ lastcall.args[i].step # 0
           /\ steps[lastcall.args[i].step].prv # 0
           /\ lastcall.args[j].step = 0
           /\ lastcall.args[j].items # <<>>
    /\ Len(FollowNxt(lastcall.result[1])) = 2

\* C28: Step.join, append, extend and mutate never modify a step that exists:
\* every step keeps its name, prv and nxt through every call, and the step a
\* mutate returns has neither prv nor nxt.
C28_InputsUnchanged ==
    [][/\ \A s \in DOMAIN steps : s \in DOMAIN steps' /\ steps'[s] = steps[s]
       /\ lastcall'.op = "mutate" /\ Len(steps') > Len(steps) =>
              /\ steps'[lastcall'.result[1]].prv = 0
              /\ steps'[lastcall'.result[1]].nxt = 0]_vars

\* The last step of a joined chain was mutated.
C28_Witness ==
    /\ lastcall.op = "mutate"
    /\ steps[lastcall.self].prv # 0
    /\ steps[steps[lastcall.self].prv].nxt = lastcall.self

\* The steps from s back, following prv.
RECURSIVE FollowPrv(_)
FollowPrv(s) ==
    IF steps[s].prv = 0 THEN <<s>> ELSE <<s>> \o FollowPrv(steps[s].prv)

Reversed(ids) == [i \in 1 .. Len(ids) |-> ids[Len(ids) + 1 - i]]

\* The steps of ids before the first one named x, all of them when there is
\* none.
BeforeFirstNamed(ids, x) ==
    LET hits == {i \in 1 .. Len(ids) : steps[ids[i]].name = x}
        stop == IF hits = {} THEN Len(ids) + 1
                ELSE CHOOSE i \in hits : \A j \in hits : i <= j
    IN  SubSeq(ids, 1, stop - 1)

\* The chain s is in, front to back.
ChainOf(s) == Reversed(FollowPrv(s)) \o Tail(FollowNxt(s))

\* C29: for every step s, s.head() is the first step of the chain of s, the
\* one without prv, and s.tail() its last, the one without nxt, so the steps
\* of one chain agree on both; head().iter() lists the chain front to back and
\* tail().iter(backwards=True) lists it back to front; iter(to=x) yields the
\* steps before the first step named x, in either direction.
C29_HeadTailIter ==
    /\ \A s \in DOMAIN steps :
           LET h == head(steps, s)
               t == tail(steps, s)
           IN  /\ steps[h].prv = 0 /\ h = ChainOf(s)[1]
               /\ steps[t].nxt = 0 /\ t = ChainOf(s)[Len(ChainOf(s))]
               /\ \A i \in DOMAIN ChainOf(s) :
                      /\ head(steps, ChainOf(s)[i]) = h
                      /\ tail(steps, ChainOf(s)[i]) = t
               /\ iter(steps, h, FALSE, TRUE, NoKey) = ChainOf(s)
               /\ iter(steps, t, TRUE, TRUE, NoKey) = Reversed(ChainOf(s))
               /\ \A x \in StepNames :
                      /\ iter(steps, s, FALSE, TRUE, x)
                             = BeforeFirstNamed(FollowNxt(s), x)
                      /\ iter(steps, s, TRUE, TRUE, x)
                             = BeforeFirstNamed(FollowPrv(s), x)
    /\ lastcall.op = "head" => lastcall.result = <<ChainOf(lastcall.self)[1]>>
    /\ lastcall.op = "tail" =>
           lastcall.result
               = <<ChainOf(lastcall.self)[Len(ChainOf(lastcall.self))]>>
    /\ lastcall.op = "iter" /\ lastcall.include_self =>
           lastcall.result
               = BeforeFirstNamed(IF lastcall.backwards
                                  THEN FollowPrv(lastcall.self)
                                  ELSE FollowNxt(lastcall.self), lastcall.to)

\* The head of a chain of three was iterated up to the name of its last step.
C29_Witness ==
    /\ lastcall.op = "iter"
    /\ lastcall.include_self
    /\ ~lastcall.backwards
    /\ lastcall.to # NoKey
    /\ Len(ChainOf(lastcall.self)) = 3
    /\ Len(lastcall.result) = 2
    /\ head(steps, lastcall.result[2]) = lastcall.self

\* The arguments hold no step: there are none, or only empty iterables.
NoStepIn(sargs) == \A i \in DOMAIN sargs : sargs[i].step = 0 /\ sargs[i].items = <<>>

\* C30: Step.join raises ValueError when its arguments hold no step at all,
\* and such a call returns nothing, creates no step and changes no step.
C30_JoinOfNothing ==
    [][lastcall'.op = "join" /\ NoStepIn(lastcall'.args) /\ lastcall' # lastcall
           => /\ lastcall'.raised
              /\ lastcall'.result = <<>>
              /\ steps' = steps]_vars

\* Two empty iterables were joined while steps exist.
C30_Witness ==
    /\ lastcall.op = "join"
    /\ Len(lastcall.args) = 2
    /\ NoStepIn(lastcall.args)
    /\ lastcall.raised
    /\ \E s \in DOMAIN steps : steps[s].nxt # 0

=============================================================================
